---- MODULE Spec2Model ----
(***************************************************************************)
(* Network-coverage precompute batch (scripts/precompute_network_coverage)  *)
(* and the loader of its output files (app.py).                             *)
(*                                                                          *)
(* Units.  A command-line float is an integer number of hundredths of a     *)
(* mile; a distance rounded to one decimal is a record [neg, tenths] (the   *)
(* sign bit is kept apart, so that -0.0 exists).  Lengths and positions are *)
(* metres.  Geometry lives on a line: a geometry is the set of 1 m cells    *)
(* [c, c+1) it covers, its area is the number of cells.                     *)
(***************************************************************************)
EXTENDS Integers, Sequences, FiniteSets, TLC

VARIABLES
    args,            \* parse_args(): the command line of the batch run
    boundary_geom,   \* load_boundary_geometry(): the study region
    providers,       \* load_provider_points(): positions of the valid rows
    pc,              \* position of main()
    error,           \* the exception that ended main(), or "none"
    current,         \* parse_distances: loop variable of the range loop
    distances,       \* parse_distances: the list built / returned
    modes,           \* parse_modes(): the requested modes
    summary,         \* main: the summary dict
    mode_idx,        \* main: index of the mode of the outer loop
    dist_idx,        \* main: index of the distance of the inner loop
    graph_proj,      \* main: the projected graph of the current mode
    origin_nodes,    \* main: nearest graph node of every provider
    graphs_built,    \* modes for which ox.graph_from_polygon was called
    service_areas,   \* what build_service_area returned, per distance of the current mode
    expansions,      \* nx.ego_graph calls made by the last build_service_area
    coverage_geom,   \* main: clipped coverage of the last cell
    uncovered_geom,  \* main: uncovered region of the last cell
    files,           \* names of the GeoJSON files in the output directory
    summary_file,    \* contents written to network_coverage_summary.json, in order
    layers,          \* app.py: walk_uncovered_layers / drive_uncovered_layers
    network_uncovered, \* app.py: the layer looked up for the selected distance
    osm              \* the street network ox.graph_from_polygon finds, per network_type

vars == <<args, boundary_geom, providers, pc, error, current, distances, modes,
          summary, mode_idx, dist_idx, graph_proj, origin_nodes, graphs_built,
          service_areas, expansions, coverage_geom, uncovered_geom, files,
          summary_file, layers, network_uncovered, osm>>

----------------------------------------------------------------------------
(* Bounds of the model *)

MaxTokens == 2        \* comma-separated pieces of --distances
MaxProviders == 2     \* rows of the provider CSV
MaxRangeLen == 11     \* iterations of the range loop the model follows

----------------------------------------------------------------------------
(* Program constants *)

\* MILES_TO_METERS = 1609.344, in units of 1e-3 m per mile
MILES_TO_METERS_E3 == 1609344

DEFAULT_DISTANCE_START == 10
DEFAULT_DISTANCE_END == 100
DEFAULT_DISTANCE_STEP == 10

NETWORK_CONFIG ==
    [walk  |-> [edge_buffer_m |-> 60, node_buffer_m |-> 40],
     drive |-> [edge_buffer_m |-> 90, node_buffer_m |-> 60]]

NetworkModes == DOMAIN NETWORK_CONFIG

\* list(NETWORK_CONFIG.keys()): insertion order
NetworkConfigKeys == <<"walk", "drive">>

\* Python's None is the empty sequence and a present value v is <<v>>: a
\* --distances piece is <<>> when blank and <<h>> when it reads as the float h
None == <<>>
Some(v) == <<v>>

----------------------------------------------------------------------------
(* Generic helpers *)

Abs(x) == IF x < 0 THEN -x ELSE x

SetMin(S) == CHOOSE x \in S : \A y \in S : x <= y
SetMax(S) == CHOOSE x \in S : \A y \in S : y <= x

Range(s) == {s[i] : i \in DOMAIN s}

\* all sequences over S of length lo..hi
SeqsOf(S, lo, hi) == UNION {[1..n -> S] : n \in lo..hi}

----------------------------------------------------------------------------
(* Floats rounded to one decimal *)

Value(d) == IF d.neg THEN -d.tenths ELSE d.tenths

\* round(x, 1) of a float x given in hundredths: round-half-even on the
\* magnitude, the sign bit kept (round(-0.04, 1) is -0.0).  The ties the
\* model feeds it are exact binary fractions (x.25, x.75).
Round1(h) ==
    LET a == Abs(h)
        q == a \div 10
        r == a % 10
        t == IF r < 5 THEN q
             ELSE IF r > 5 THEN q + 1
             ELSE IF q % 2 = 0 THEN q ELSE q + 1
    IN  [neg |-> h < 0, tenths |-> t]

\* sorted(set(values)): equal floats (0.0 == -0.0) collapse to the one met
\* first, the result is ascending
FirstOfValue(values, v) ==
    values[SetMin({i \in DOMAIN values : Value(values[i]) = v})]

RECURSIVE SortedByValue(_, _)
SortedByValue(values, vs) ==
    IF vs = {} THEN <<>>
    ELSE LET v == SetMin(vs)
         IN  <<FirstOfValue(values, v)>> \o SortedByValue(values, vs \ {v})

SortedSet(values) ==
    SortedByValue(values, {Value(values[i]) : i \in DOMAIN values})

----------------------------------------------------------------------------
(* parse_distances *)

\* args.distances is the sequence of pieces args.distances.split(",") gives.
\* args.distances.strip() is non-empty: it holds a comma or a non-blank piece
DistancesStripped(tokens) ==
    Len(tokens) > 1 \/ tokens[1] # None

\* [round(float(v.strip()), 1) for v in args.distances.split(",") if v.strip()]
ParsedTokens(tokens) ==
    LET kept == SelectSeq(tokens, LAMBDA v : v # None)
    IN  [i \in DOMAIN kept |-> Round1(kept[i][1])]

\* the loop condition  current <= args.distance_end + 1e-9  on hundredths
RangeContinues(cur, a) == cur <= a.distance_end

----------------------------------------------------------------------------
(* parse_modes *)

\* m.strip().lower() on the pieces the model feeds it
StripLower(m) ==
    CASE m = "walk"   -> "walk"
      [] m = " Walk"  -> "walk"
      [] m = "drive"  -> "drive"
      [] m = "Drive " -> "drive"
      [] m = "bike"   -> "bike"
      [] m = " "      -> ""
      [] m = ""       -> ""

Requested(a) ==
    LET kept == SelectSeq(a.modes, LAMBDA m : StripLower(m) # "")
    IN  [i \in DOMAIN kept |-> StripLower(kept[i])]

\* Invalid looking at the first requested mode only
InvalidFirstOnly(a) ==
    IF Requested(a) = <<>> THEN <<>>
    ELSE SelectSeq(<<Requested(a)[1]>>, LAMBDA m : m \notin NetworkModes)

Invalid(a) == SelectSeq(Requested(a), LAMBDA m : m \notin NetworkModes)

\* the value parse_modes returns when it does not raise
parse_modes(a) ==
    IF Requested(a) # <<>> THEN Requested(a) ELSE NetworkConfigKeys

----------------------------------------------------------------------------
(* Geometry on a line (shapely) *)

\* point.buffer(r) and line.buffer(r)
PointBuffer(x, r) == (x - r)..(x + r - 1)
LineBuffer(x1, x2, r) ==
    ((IF x1 < x2 THEN x1 ELSE x2) - r)..((IF x1 < x2 THEN x2 ELSE x1) + r - 1)

\* unary_union of a collection of geometries
unary_union(geoms) == UNION geoms

\* geometry.convex_hull
convex_hull(g) == IF g = {} THEN {} ELSE SetMin(g)..SetMax(g)

Area(g) == Cardinality(g)

----------------------------------------------------------------------------
(* The street graph (networkx MultiDiGraph, projected to metres) *)

\* a graph: nodes, x[n] the position of node n, edges [u, v, length]
Edge(u, v, len) == [u |-> u, v |-> v, length |-> len]
BothWays(u, v, len) == {Edge(u, v, len), Edge(v, u, len)}

\* three nodes on a street, every edge walkable both ways
WalkCity ==
    [nodes |-> {1, 2, 3},
     x     |-> (1 :> 100 @@ 2 :> 200 @@ 3 :> 300),
     edges |-> BothWays(1, 2, 100) \cup BothWays(2, 3, 120)]

\* the same nodes, one-way streets
DriveCity ==
    [nodes |-> {1, 2, 3},
     x     |-> (1 :> 100 @@ 2 :> 200 @@ 3 :> 300),
     edges |-> {Edge(1, 2, 100), Edge(2, 3, 120), Edge(3, 1, 400)}]

\* a single node without edges
Hamlet ==
    [nodes |-> {1}, x |-> (1 :> 200), edges |-> {}]

\* length of the shortest path n -> v using at most k edges: <<>> or <<len>>
RECURSIVE PathLength(_, _, _, _)
PathLength(G, n, v, k) ==
    IF k = 0 THEN (IF v = n THEN Some(0) ELSE None)
    ELSE LET prev == PathLength(G, n, v, k - 1)
             via  == {PathLength(G, n, e.u, k - 1)[1] + e.length :
                        e \in {f \in G.edges :
                                 f.v = v /\ PathLength(G, n, f.u, k - 1) # None}}
             all  == via \cup Range(prev)
         IN  IF all = {} THEN None ELSE Some(SetMin(all))

\* WithinRadius with the comparison turned round
WithinRadiusFlipped(len, radius) == len * 10000 >= radius

\* nx.single_source_dijkstra_path_length(G, n, cutoff=radius, weight="length"):
\* the nodes whose shortest-path length is at most radius (n itself is at 0).
\* radius is in 1e-4 m, lengths are metres.
WithinRadius(len, radius) == len * 10000 <= radius

\* ReachedNodes with the origin left out (ego_graph's center=False)
ReachedNodesNoCenter(G, n, radius) ==
    {v \in G.nodes \ {n} :
        LET d == PathLength(G, n, v, Cardinality(G.nodes) - 1)
        IN  d # None /\ WithinRadius(d[1], radius)}

ReachedNodes(G, n, radius) ==
    {n} \cup {v \in G.nodes :
                LET d == PathLength(G, n, v, Cardinality(G.nodes) - 1)
                IN  d # None /\ WithinRadius(d[1], radius)}

\* nx.ego_graph(G, n, radius=radius, distance="length"): the subgraph induced
\* by the reached nodes
ego_graph(G, n, radius) ==
    LET reached == ReachedNodes(G, n, radius)
    IN  [nodes |-> reached,
         x     |-> [v \in reached |-> G.x[v]],
         edges |-> {e \in G.edges : e.u \in reached /\ e.v \in reached}]

----------------------------------------------------------------------------
(* build_service_area *)

\* sorted(set(origin_nodes))
RECURSIVE SortedNodes(_)
SortedNodes(S) ==
    IF S = {} THEN <<>> ELSE <<SetMin(S)>> \o SortedNodes(S \ {SetMin(S)})

\* OriginIteration over the raw list, set() left out
OriginIterationNoDedup(nodes) == nodes

OriginIteration(nodes) == SortedNodes(Range(nodes))

\* the geoms list of one origin: node buffers, then edge buffers
NodeGeoms(sub, node_buffer_m) ==
    IF Cardinality(sub.nodes) > 0
    THEN {PointBuffer(sub.x[v], node_buffer_m) : v \in sub.nodes}
    ELSE {}

EdgeGeoms(sub, edge_buffer_m) ==
    IF Cardinality(sub.edges) > 0
    THEN {LineBuffer(sub.x[e.u], sub.x[e.v], edge_buffer_m) : e \in sub.edges}
    ELSE {}

\* what one origin appends to coverage_polygons: <<>> or <<polygon>>
OriginPolygon(G, node_id, distance_m, edge_buffer_m, node_buffer_m) ==
    LET subgraph == ego_graph(G, node_id, distance_m)
        geoms    == NodeGeoms(subgraph, node_buffer_m)
                      \cup EdgeGeoms(subgraph, edge_buffer_m)
    IN  IF geoms # {} THEN Some(convex_hull(unary_union(geoms))) ELSE None

\* coverage_polygons after the loop over the sequence nodes
RECURSIVE CoveragePolygons(_, _, _, _, _)
CoveragePolygons(G, nodes, distance_m, edge_buffer_m, node_buffer_m) ==
    IF nodes = <<>> THEN <<>>
    ELSE OriginPolygon(G, Head(nodes), distance_m, edge_buffer_m, node_buffer_m)
           \o CoveragePolygons(G, Tail(nodes), distance_m, edge_buffer_m,
                               node_buffer_m)

\* the value returned: None, or <<coverage>>
build_service_area(G, nodes, distance_m, edge_buffer_m, node_buffer_m) ==
    LET coverage_polygons ==
            CoveragePolygons(G, OriginIteration(nodes), distance_m,
                             edge_buffer_m, node_buffer_m)
    IN  IF coverage_polygons # <<>>
        THEN Some(unary_union(Range(coverage_polygons)))
        ELSE None

\* the number of nx.ego_graph calls of one build_service_area call
EgoGraphCalls(nodes) == Len(OriginIteration(nodes))

----------------------------------------------------------------------------
(* main: one (mode, distance) cell *)

\* ox.distance.nearest_nodes: the node nearest to each provider (the first
\* of the nearest ones, in node order)
NearestNode(G, px) ==
    SetMin({v \in G.nodes :
              \A w \in G.nodes : Abs(G.x[v] - px) <= Abs(G.x[w] - px)})

nearest_nodes(G, X) == [i \in DOMAIN X |-> NearestNode(G, X[i])]

\* distance_miles * MILES_TO_METERS, in 1e-4 m
DistanceMeters(d) == Value(d) * MILES_TO_METERS_E3

\* Clip with the intersection left out
ClipSkipped(coverage, boundary_proj) == coverage

\* coverage_geom.intersection(boundary_proj)
Clip(coverage, boundary_proj) == coverage \cap boundary_proj

\* boundary_proj.difference(coverage_geom)
Difference(boundary_proj, coverage) == boundary_proj \ coverage

\* CoverageRatio without the guard on total_area
CoverageRatioUnguarded(covered_area, total_area) ==
    [num |-> covered_area, den |-> total_area]

\* float(covered_area / total_area) if total_area else 0.0, as a fraction
CoverageRatio(covered_area, total_area) ==
    IF total_area # 0
    THEN [num |-> covered_area, den |-> total_area]
    ELSE [num |-> 0, den |-> 1]

\* f"{x:.1f}" of a one-decimal float, as a sequence of characters
DigitChar(n) == <<"0", "1", "2", "3", "4", "5", "6", "7", "8", "9">>[n + 1]

RECURSIVE Digits(_)
Digits(n) ==
    IF n < 10 THEN <<DigitChar(n)>> ELSE Digits(n \div 10) \o <<DigitChar(n % 10)>>

\* FormatOneDecimal with the format ":.2f"
FormatTwoDecimals(d) ==
    (IF d.neg THEN <<"-">> ELSE <<>>)
      \o Digits(d.tenths \div 10) \o <<".">> \o <<DigitChar(d.tenths % 10), "0">>

FormatOneDecimal(d) ==
    (IF d.neg THEN <<"-">> ELSE <<>>)
      \o Digits(d.tenths \div 10) \o <<".">> \o <<DigitChar(d.tenths % 10)>>

\* output_dir / f"{mode}_{kind}_{distance_miles:.1f}mi.geojson"
FileName(mode, kind, d) ==
    [mode |-> mode, kind |-> kind, dist |-> FormatOneDecimal(d)]

----------------------------------------------------------------------------
(* app.py: load_network_uncovered_layers and the distance lookup *)

DigitChars == {"0", "1", "2", "3", "4", "5", "6", "7", "8", "9"}

DigitOf(c) == CHOOSE n \in 0..9 : DigitChar(n) = c

\* the text matches  \d+(?:\.\d+)?
MatchesNumber(s) ==
    LET dots == {i \in DOMAIN s : s[i] = "."}
    IN  /\ Len(s) >= 1
        /\ \A i \in DOMAIN s : s[i] \in DigitChars \cup {"."}
        /\ Cardinality(dots) <= 1
        /\ \A i \in dots : 1 < i /\ i < Len(s)

RECURSIVE DigitsValue(_)
DigitsValue(s) ==
    IF s = <<>> THEN 0
    ELSE DigitsValue(SubSeq(s, 1, Len(s) - 1)) * 10 + DigitOf(s[Len(s)])

\* float(text) in hundredths, for a matching text of at most two decimals
ParseFloat(s) ==
    LET dots == {i \in DOMAIN s : s[i] = "."}
        dot  == IF dots = {} THEN Len(s) + 1 ELSE SetMin(dots)
        whole == DigitsValue(SubSeq(s, 1, dot - 1))
        frac  == SubSeq(s, dot + 1, Len(s))
    IN  whole * 100
          + (IF Len(frac) = 0 THEN 0
             ELSE IF Len(frac) = 1 THEN DigitOf(frac[1]) * 10
             ELSE DigitOf(frac[1]) * 10 + DigitOf(frac[2]))

\* the files the glob and the pattern of the loader accept for a mode
LayerFiles(mode, dir) ==
    {f \in dir : f.mode = mode /\ f.kind = "uncovered" /\ MatchesNumber(f.dist)}

\* layers[round(float(match.group(1)), 1)] = <the file>; a float key is its value
load_network_uncovered_layers(mode, dir) ==
    {[key |-> Value(Round1(ParseFloat(f.dist))), file |-> f] :
        f \in LayerFiles(mode, dir)}

\* layers.get(selected_distance): None, or <<file>>
LayerGet(layer, selected_distance) ==
    LET hits == {e \in layer : e.key = Value(selected_distance)}
    IN  IF hits = {} THEN None ELSE Some((CHOOSE e \in hits : TRUE).file)

\* the slider: 0.1 .. 1.0 in steps of 0.1, in hundredths
SliderValues == {10 * k : k \in 1..10}

----------------------------------------------------------------------------
(* Inputs of a run *)

DefaultRange ==
    <<DEFAULT_DISTANCE_START, DEFAULT_DISTANCE_END, DEFAULT_DISTANCE_STEP>>

Args(distance_miles, tokens, range, mode_tokens) ==
    [distance_miles |-> distance_miles,
     distances      |-> tokens,
     distance_start |-> range[1],
     distance_end   |-> range[2],
     distance_step  |-> range[3],
     modes          |-> mode_tokens]

\* --distance-miles values (hundredths)
DistanceMilesInputs == {-50, -4, 25, 50}

\* pieces of --distances; --distances "" is <<None>>
TokenInputs == {None, Some(-4), Some(4), Some(20)}

\* --distance-start, --distance-end, --distance-step
RangeInputs ==
    {DefaultRange, <<20, 10, 10>>, <<10, 30, 20>>, <<-10, 10, 10>>,
     <<10, 10, 0>>, <<10, 20, -10>>}

\* pieces of --modes; the default is "walk,drive"
ModeInputs ==
    {<<"walk", "drive">>, <<"">>, <<"walk">>, <<"Drive ">>, <<" Walk", "drive">>,
     <<"walk", "walk">>, <<"bike">>, <<"walk", "bike">>, <<"bike", "drive">>,
     <<" ", "walk">>}

\* provider positions: 110 and 120 snap to the same node of the city graphs
ProviderInputs == {110, 120, 290}

\* the study region [lo, hi): empty, inside the streets, around them.  The
\* street network is what the map service returns; it is not derived from
\* the region here.
BoundaryInputs == {<<0, 0>>, <<150, 260>>, <<40, 330>>}

Interval(b) == b[1]..(b[2] - 1)

City == [walk |-> WalkCity, drive |-> DriveCity]
Village == [walk |-> Hamlet, drive |-> Hamlet]

\* runs that vary the command line, in one city
ConfigRuns ==
    LET ds == {<<Some(h), t, DefaultRange>> :
                  h \in DistanceMilesInputs, t \in {<<None>>, <<Some(20)>>}}
              \cup {<<None, t, DefaultRange>> : t \in SeqsOf(TokenInputs, 1, MaxTokens)}
              \cup {<<None, <<None>>, r>> : r \in RangeInputs}
    IN  {[args |-> Args(d[1], d[2], d[3], m), boundary |-> <<150, 260>>,
          providers |-> <<110>>, osm |-> City] : d \in ds, m \in ModeInputs}

\* runs that vary the providers, the region and the streets
GeometryRuns ==
    LET ds == {<<None, <<Some(10), Some(20)>>, DefaultRange>>,
               <<None, <<None>>, <<-10, 10, 10>>>>,
               <<Some(25), <<None>>, DefaultRange>>}
    IN  {[args |-> Args(d[1], d[2], d[3], m), boundary |-> b,
          providers |-> p, osm |-> o] :
            d \in ds, m \in {<<"walk", "drive">>},
            b \in BoundaryInputs, p \in SeqsOf(ProviderInputs, 0, MaxProviders),
            o \in {City, Village}}

NoGraph == [nodes |-> {}, x |-> <<>>, edges |-> {}]

Init ==
    /\ \E run \in ConfigRuns \cup GeometryRuns :
          /\ args = run.args
          /\ boundary_geom = Interval(run.boundary)
          /\ providers = run.providers
          /\ osm = run.osm
    /\ pc = "parse_distances"
    /\ error = "none"
    /\ current = 0
    /\ distances = <<>>
    /\ modes = <<>>
    /\ summary = [distances_miles |-> <<>>, provider_count |-> 0,
                  modes |-> [m \in {} |-> {}]]
    /\ mode_idx = 1
    /\ dist_idx = 1
    /\ graph_proj = NoGraph
    /\ origin_nodes = <<>>
    /\ graphs_built = <<>>
    /\ service_areas = <<>>
    /\ expansions = 0
    /\ coverage_geom = {}
    /\ uncovered_geom = {}
    /\ files = {}
    /\ summary_file = <<>>
    /\ layers = [m \in NetworkModes |-> {}]
    /\ network_uncovered = None

----------------------------------------------------------------------------
(* main of the batch script *)

\* AfterDistances with the summary written inside the mode loop, ending main
AfterDistancesFirstModeOnly(mi) ==
    [pc |-> "summary", mode_idx |-> mi, dist_idx |-> 1]

\* where main goes when the distance loop of mode number mi is exhausted
AfterDistances(mi) ==
    IF mi < Len(modes)
    THEN [pc |-> "graph", mode_idx |-> mi + 1, dist_idx |-> 1]
    ELSE [pc |-> "summary", mode_idx |-> mi, dist_idx |-> 1]

\* where main goes after the graph of mode number mi is built
AfterGraph(mi) ==
    IF distances # <<>>
    THEN [pc |-> "cell", mode_idx |-> mi, dist_idx |-> 1]
    ELSE AfterDistances(mi)

\* where main goes after cell (mi, di)
AfterCell(mi, di) ==
    IF di < Len(distances)
    THEN [pc |-> "cell", mode_idx |-> mi, dist_idx |-> di + 1]
    ELSE AfterDistances(mi)

\* the summary record of a cell
CellRecord(mode, d, coverage, uncovered, boundary_proj, nodes) ==
    [key                 |-> FormatOneDecimal(d),
     coverage_path       |-> FileName(mode, "coverage", d),
     uncovered_path      |-> FileName(mode, "uncovered", d),
     unique_origin_nodes |-> Cardinality(Range(nodes)),
     covered_area_sq_m   |-> Area(coverage),
     uncovered_area_sq_m |-> Area(uncovered),
     coverage_ratio      |-> CoverageRatio(Area(coverage), Area(boundary_proj))]

\* summary["modes"][mode][key] = record
PutRecord(s, mode, record) ==
    [s EXCEPT !.modes[mode] = {r \in @ : r.key # record.key} \cup {record}]

\* parse_distances up to its range loop
ParseDistances ==
    /\ pc = "parse_distances"
    /\ IF args.distance_miles # None
       THEN /\ distances' = <<Round1(args.distance_miles[1])>>
            /\ pc' = "parse_modes"
            /\ UNCHANGED current
       ELSE IF DistancesStripped(args.distances)
       THEN /\ distances' = SortedSet(ParsedTokens(args.distances))
            /\ pc' = "parse_modes"
            /\ UNCHANGED current
       ELSE /\ distances' = <<>>
            /\ current' = args.distance_start
            /\ pc' = "range"
    /\ UNCHANGED <<args, boundary_geom, providers, error, modes, summary,
                   mode_idx, dist_idx, graph_proj, origin_nodes, graphs_built,
                   service_areas, expansions, coverage_geom, uncovered_geom,
                   files, summary_file, layers, network_uncovered, osm>>

\* one iteration of  while current <= args.distance_end + 1e-9
RangeStep ==
    /\ pc = "range"
    /\ RangeContinues(current, args)
    /\ Len(distances) < MaxRangeLen
    /\ distances' = Append(distances, Round1(current))
    /\ current' = current + args.distance_step
    /\ UNCHANGED <<args, boundary_geom, providers, pc, error, modes, summary,
                   mode_idx, dist_idx, graph_proj, origin_nodes, graphs_built,
                   service_areas, expansions, coverage_geom, uncovered_geom,
                   files, summary_file, layers, network_uncovered, osm>>

\* the loop ends: return sorted(set(distances))
RangeExit ==
    /\ pc = "range"
    /\ ~RangeContinues(current, args)
    /\ distances' = SortedSet(distances)
    /\ pc' = "parse_modes"
    /\ UNCHANGED <<args, boundary_geom, providers, error, current, modes,
                   summary, mode_idx, dist_idx, graph_proj, origin_nodes,
                   graphs_built, service_areas, expansions, coverage_geom,
                   uncovered_geom, files, summary_file, layers,
                   network_uncovered, osm>>

\* parse_modes, then the summary dict
ParseModes ==
    /\ pc = "parse_modes"
    /\ IF Invalid(args) # <<>>
       THEN /\ pc' = "failed"
            /\ error' = "ValueError: Unsupported mode(s)"
            /\ UNCHANGED <<modes, summary>>
       ELSE /\ modes' = parse_modes(args)
            /\ summary' = [distances_miles |-> distances,
                           provider_count  |-> Len(providers),
                           modes |-> [m \in Range(parse_modes(args)) |-> {}]]
            /\ pc' = "graph"
            /\ UNCHANGED error
    /\ UNCHANGED <<args, boundary_geom, providers, current, distances,
                   mode_idx, dist_idx, graph_proj, origin_nodes, graphs_built,
                   service_areas, expansions, coverage_geom, uncovered_geom,
                   files, summary_file, layers, network_uncovered, osm>>

\* the head of the mode loop: build and project the graph, snap the providers
BuildGraph ==
    /\ pc = "graph"
    /\ LET mode == modes[mode_idx]
           G    == osm[mode]
           next == AfterGraph(mode_idx)
       IN  /\ graph_proj' = G
           /\ graphs_built' = Append(graphs_built, mode)
           /\ origin_nodes' = nearest_nodes(G, providers)
           /\ service_areas' = <<>>
           /\ pc' = next.pc
           /\ mode_idx' = next.mode_idx
           /\ dist_idx' = next.dist_idx
    /\ UNCHANGED <<args, boundary_geom, providers, error, current, distances,
                   modes, summary, expansions, coverage_geom, uncovered_geom,
                   files, summary_file, layers, network_uncovered, osm>>

\* the body of the distance loop
ComputeCell ==
    /\ pc = "cell"
    /\ LET mode     == modes[mode_idx]
           config   == NETWORK_CONFIG[mode]
           d        == distances[dist_idx]
           returned == build_service_area(graph_proj, origin_nodes,
                                          DistanceMeters(d),
                                          config.edge_buffer_m,
                                          config.node_buffer_m)
           next     == AfterCell(mode_idx, dist_idx)
       IN  /\ expansions' = EgoGraphCalls(origin_nodes)
           /\ service_areas' = Append(service_areas, returned)
           /\ IF returned = None
              THEN \* coverage_geom.intersection: None has no such attribute
                   /\ pc' = "failed"
                   /\ error' = "AttributeError: NoneType"
                   /\ UNCHANGED <<coverage_geom, uncovered_geom, files,
                                  summary, mode_idx, dist_idx>>
              ELSE LET coverage  == Clip(returned[1], boundary_geom)
                       uncovered == Difference(boundary_geom, coverage)
                   IN  /\ coverage_geom' = coverage
                       /\ uncovered_geom' = uncovered
                       /\ files' = files \cup {FileName(mode, "coverage", d),
                                               FileName(mode, "uncovered", d)}
                       /\ summary' = PutRecord(summary, mode,
                                         CellRecord(mode, d, coverage, uncovered,
                                                    boundary_geom, origin_nodes))
                       /\ pc' = next.pc
                       /\ mode_idx' = next.mode_idx
                       /\ dist_idx' = next.dist_idx
                       /\ UNCHANGED error
    /\ UNCHANGED <<args, boundary_geom, providers, current, distances, modes,
                   graph_proj, origin_nodes, graphs_built, summary_file, layers,
                   network_uncovered, osm>>

\* summary_path.write_text(json.dumps(summary, indent=2))
WriteSummary ==
    /\ pc = "summary"
    /\ summary_file' = Append(summary_file, summary)
    /\ pc' = "done"
    /\ UNCHANGED <<args, boundary_geom, providers, error, current, distances,
                   modes, summary, mode_idx, dist_idx, graph_proj, origin_nodes,
                   graphs_built, service_areas, expansions, coverage_geom,
                   uncovered_geom, files, layers, network_uncovered, osm>>

----------------------------------------------------------------------------
(* The app, started on the output directory the batch run left *)

\* walk_uncovered_layers, drive_uncovered_layers
LoadLayers ==
    /\ pc \in {"done", "failed"}
    /\ layers' = [m \in NetworkModes |-> load_network_uncovered_layers(m, files)]
    /\ UNCHANGED <<args, boundary_geom, providers, pc, error, current,
                   distances, modes, summary, mode_idx, dist_idx, graph_proj,
                   origin_nodes, graphs_built, service_areas, expansions,
                   coverage_geom, uncovered_geom, files, summary_file,
                   network_uncovered, osm>>

\* the slider and the coverage model are set: the layer is looked up
SelectDistance ==
    /\ pc \in {"done", "failed"}
    /\ \E coverage_distance_miles \in SliderValues, m \in NetworkModes :
          /\ layers[m] # {}
          /\ network_uncovered' =
                 LayerGet(layers[m], Round1(coverage_distance_miles))
    /\ UNCHANGED <<args, boundary_geom, providers, pc, error, current,
                   distances, modes, summary, mode_idx, dist_idx, graph_proj,
                   origin_nodes, graphs_built, service_areas, expansions,
                   coverage_geom, uncovered_geom, files, summary_file, layers,
                   osm>>

Next ==
    \/ ParseDistances
    \/ RangeStep
    \/ RangeExit
    \/ ParseModes
    \/ BuildGraph
    \/ ComputeCell
    \/ WriteSummary
    \/ LoadLayers
    \/ SelectDistance

Spec == Init /\ [][Next]_vars

----------------------------------------------------------------------------
(* Properties *)

Last(q) == q[Len(q)]

\* the records of the summary dict, of every mode
Records(s) == UNION {s.modes[m] : m \in DOMAIN s.modes}

\* the cells of a service area, None covering nothing
Covered(returned) == IF returned = None THEN {} ELSE returned[1]

\* a cell of the current mode has just been computed
CellComputed == service_areas # <<>>

\* C1: when there are no providers (the origin set is empty and
\* build_service_area returns None), every cell completes without an error,
\* the uncovered polygon is the boundary and the recorded ratio is 0.0.
C1_EmptyOriginsLeaveBoundaryUncovered ==
    (providers = <<>> /\ CellComputed) =>
        /\ pc # "failed"
        /\ error = "none"
        /\ uncovered_geom = boundary_geom
        /\ Records(summary) # {}
        /\ \A r \in Records(summary) : r.coverage_ratio.num = 0

\* C2: for every cell with a summary record, the clipped coverage and the
\* uncovered region are disjoint and make up the boundary, and the recorded
\* covered and uncovered areas add up to the boundary area.
C2_BoundaryPartition ==
    /\ files # {} =>
          /\ coverage_geom \cap uncovered_geom = {}
          /\ coverage_geom \cup uncovered_geom = boundary_geom
    /\ \A r \in Records(summary) :
          r.covered_area_sq_m + r.uncovered_area_sq_m = Area(boundary_geom)

\* a cell whose service area reaches outside the boundary and covers a part
\* of it only
C2_Witness ==
    /\ CellComputed
    /\ Last(service_areas) # None
    /\ ~(Covered(Last(service_areas)) \subseteq boundary_geom)
    /\ coverage_geom # {}
    /\ uncovered_geom # {}
    /\ Records(summary) # {}

\* C3: every summary record has 0 <= coverage_ratio <= 1, and the ratio is
\* 0.0 when the boundary area is 0.
C3_CoverageRatioBounds ==
    \A r \in Records(summary) :
        /\ r.coverage_ratio.den > 0
        /\ 0 <= r.coverage_ratio.num
        /\ r.coverage_ratio.num <= r.coverage_ratio.den
        /\ Area(boundary_geom) = 0 => r.coverage_ratio.num = 0

\* a record written for a boundary of area 0 by a run with providers
C3_Witness ==
    /\ Area(boundary_geom) = 0
    /\ CellComputed
    /\ Last(service_areas) # None
    /\ Records(summary) # {}

\* the radius of the i-th distance of the list
RadiusOf(i) == DistanceMeters(distances[i])

\* C4: for the graph, mode and origin nodes of the current mode and any two
\* distances d1 < d2 already computed, every origin's reached nodes and edges
\* at d1 are among those at d2 and the coverage at d2 contains that at d1.
C4_CoverageMonotoneInDistance ==
    \A i \in DOMAIN service_areas : \A j \in DOMAIN service_areas :
        i < j =>
           /\ Value(distances[i]) < Value(distances[j])
           /\ Covered(service_areas[i]) \subseteq Covered(service_areas[j])
           /\ service_areas[i] # None => service_areas[j] # None
           /\ \A n \in Range(origin_nodes) :
                 LET g1 == ego_graph(graph_proj, n, RadiusOf(i))
                     g2 == ego_graph(graph_proj, n, RadiusOf(j))
                 IN  g1.nodes \subseteq g2.nodes /\ g1.edges \subseteq g2.edges

\* two distances of one mode, the larger one reaching strictly more
C4_Witness ==
    \E i \in DOMAIN service_areas : \E j \in DOMAIN service_areas :
        /\ i < j
        /\ service_areas[i] # None
        /\ Covered(service_areas[i]) # Covered(service_areas[j])
        /\ \E n \in Range(origin_nodes) :
              ego_graph(graph_proj, n, RadiusOf(i)).nodes
                 # ego_graph(graph_proj, n, RadiusOf(j)).nodes

\* the text s is the one-decimal text of d: an optional sign, digits, a
\* point and one digit, reading as d
IsOneDecimalOf(s, d) ==
    /\ Len(s) >= (IF d.neg THEN 4 ELSE 3)
    /\ d.neg => s[1] = "-"
    /\ LET body == IF d.neg THEN Tail(s) ELSE s
       IN  /\ MatchesNumber(body)
           /\ body[Len(body) - 1] = "."
           /\ ParseFloat(body) = d.tenths * 10

\* the record r of mode m is the one of distance d: its key is the
\* one-decimal text of d and its uncovered file carries the same text
NamedAfter(m, r, d) ==
    /\ IsOneDecimalOf(r.key, d)
    /\ r.uncovered_path = [mode |-> m, kind |-> "uncovered", dist |-> r.key]
    /\ r.uncovered_path \in files

\* the loader registers the uncovered file of r under round(d, 1), and a
\* slider value that rounds to d gets it
LoadedUnder(m, r, d) ==
    LET layer == load_network_uncovered_layers(m, files)
    IN  /\ [key |-> Value(d), file |-> r.uncovered_path] \in layer
        /\ \A x \in SliderValues :
              Value(Round1(x)) = Value(d) =>
                 LayerGet(layer, Round1(x)) = Some(r.uncovered_path)

\* every cell of a finished run has its record
EveryCellRecorded ==
    pc = "done" =>
       \A m \in Range(modes) : \A d \in Range(distances) :
          \E r \in summary.modes[m] : IsOneDecimalOf(r.key, d)

\* C5 as stated: for every mode and every distance d of the parsed list, the
\* uncovered file and the summary key carry d formatted to one decimal and
\* the loader registers the file under round(d, 1).
C5_EveryDistanceFoundByLoader ==
    /\ EveryCellRecorded
    /\ \A m \in DOMAIN summary.modes : \A r \in summary.modes[m] :
          \E d \in Range(distances) : NamedAfter(m, r, d) /\ LoadedUnder(m, r, d)

\* C5 amended: the file and the key carry d formatted to one decimal for
\* every d; the loader registers the file under round(d, 1) for every d
\* whose text has no minus sign.
C5_UnsignedDistanceFoundByLoader ==
    /\ EveryCellRecorded
    /\ \A m \in DOMAIN summary.modes : \A r \in summary.modes[m] :
          \E d \in Range(distances) :
             NamedAfter(m, r, d) /\ (~d.neg => LoadedUnder(m, r, d))

\* the app has loaded a layer the run wrote and the slider has found it
C5_Witness ==
    /\ pc = "done"
    /\ network_uncovered # None
    /\ \E m \in DOMAIN summary.modes : \E r \in summary.modes[m] :
          /\ network_uncovered = Some(r.uncovered_path)
          /\ \E e \in layers[m] : e.file = r.uncovered_path

\* the request names a mode other than walk and drive
HasUnsupportedMode ==
    \E i \in DOMAIN args.modes :
        StripLower(args.modes[i]) \notin {"", "walk", "drive"}

\* C6: with an unsupported mode in the request no graph is built and no
\* file is written, and once the modes are parsed the run has failed with
\* the validation error.
C6_UnsupportedModeFailsBeforeGraphs ==
    HasUnsupportedMode =>
        /\ graphs_built = <<>>
        /\ files = {}
        /\ summary_file = <<>>
        /\ pc \in {"parse_distances", "range", "parse_modes", "failed"}
        /\ pc = "failed" => error = "ValueError: Unsupported mode(s)"

\* a request that names walk first and an unsupported mode after it has failed
C6_Witness ==
    /\ pc = "failed"
    /\ HasUnsupportedMode
    /\ StripLower(args.modes[1]) \in NetworkModes

\* C7: when the distance list resolves to empty the run fails before any
\* graph is built, and writes no summary.
C7_EmptyDistancesFailBeforeGraphs ==
    (pc \notin {"parse_distances", "range"} /\ distances = <<>>) =>
        /\ graphs_built = <<>>
        /\ summary_file = <<>>
        /\ pc # "done"

\* C8: the summary file is written at most once, as the last step of a run
\* that completed every cell: by then both files of every requested cell are
\* written and the content holds exactly one record per requested mode and
\* distance; a run that failed has written none.
C8_SummaryWrittenOnceAfterAllCells ==
    /\ Len(summary_file) <= 1
    /\ pc = "done" <=> Len(summary_file) = 1
    /\ summary_file # <<>> =>
          LET content == summary_file[1]
          IN  /\ DOMAIN content.modes = Range(modes)
              /\ content.distances_miles = distances
              /\ \A m \in Range(modes) :
                    /\ Cardinality(content.modes[m]) = Len(distances)
                    /\ \A i \in DOMAIN distances :
                          /\ [mode |-> m, kind |-> "coverage",
                               dist |-> FormatOneDecimal(distances[i])] \in files
                          /\ [mode |-> m, kind |-> "uncovered",
                               dist |-> FormatOneDecimal(distances[i])] \in files
                          /\ Cardinality({r \in content.modes[m] :
                                 r.key = FormatOneDecimal(distances[i])}) = 1

\* a finished run of two modes and several distances
C8_Witness ==
    /\ pc = "done"
    /\ Len(summary_file) = 1
    /\ Cardinality(Range(modes)) = 2
    /\ Len(distances) >= 2

\* the list without its repeated elements, first occurrences kept
RECURSIVE Dedup(_)
Dedup(q) ==
    IF q = <<>> THEN <<>>
    ELSE LET rest == Dedup(SubSeq(q, 1, Len(q) - 1))
         IN  IF Last(q) \in Range(rest) THEN rest ELSE Append(rest, Last(q))

\* the buffers of the mode whose cells are being computed
CurrentConfig == NETWORK_CONFIG[Last(graphs_built)]

\* C9: build_service_area expands once per unique origin node and returns
\* for the origin list what it returns for the list without its duplicates.
C9_DedupOfOrigins ==
    CellComputed =>
        /\ expansions = Cardinality(Range(origin_nodes))
        /\ Last(service_areas) =
              build_service_area(graph_proj, Dedup(origin_nodes),
                                 RadiusOf(Len(service_areas)),
                                 CurrentConfig.edge_buffer_m,
                                 CurrentConfig.node_buffer_m)

\* two providers snapped to one node, and a cell computed for them
C9_Witness ==
    /\ CellComputed
    /\ Len(origin_nodes) = 2
    /\ origin_nodes[1] = origin_nodes[2]
    /\ providers[1] # providers[2]
    /\ Last(service_areas) # None

\* the origin n reaches no edge within the distance of the last cell
NoEdgeReached(n) ==
    ego_graph(graph_proj, n, RadiusOf(Len(service_areas))).edges = {}

\* what the origin n appends to coverage_polygons in the last cell
PolygonOf(n) ==
    OriginPolygon(graph_proj, n, RadiusOf(Len(service_areas)),
                  CurrentConfig.edge_buffer_m, CurrentConfig.node_buffer_m)

StrictlyAscending(q) ==
    \A i \in 1..(Len(q) - 1) : Value(q[i]) < Value(q[i + 1])

\* what is left of the range before the loop condition of line 141 fails
RangeRemaining == args.distance_end - current

\* C11: parse_distances terminates and returns a finite, sorted,
\* duplicate-free list of one-decimal distances for every combination of
\* --distance-miles, --distances, --distance-start, --distance-end and
\* --distance-step, a zero or negative step with start <= end included.
\* Termination of the while loop is stated by its variant: every pass brings
\* current strictly closer to the end of the range, so that the condition
\* current <= distance_end fails after finitely many passes; and whenever
\* parse_distances returns, the list is ascending without duplicates.
C11_ParseDistancesTerminatesSorted ==
    [][ /\ (pc = "range" /\ pc' = "range") => RangeRemaining' < RangeRemaining
        /\ (pc \in {"parse_distances", "range"} /\ pc' = "parse_modes")
              => StrictlyAscending(distances') ]_vars

====
